---- MODULE Spec2Model ----
(***************************************************************************)
(* A model of app.py, the journal / gallery / dreamboard web application.  *)
(*                                                                         *)
(* Python values are tagged tuples, so that values of different Python     *)
(* types can be told apart and compared:                                   *)
(*   <<"int", n>>        an int                                            *)
(*   <<"str", s>>        a str; s is the sequence of its characters        *)
(*   <<"list", l>>       a list of str; l is a sequence of character       *)
(*                       sequences                                         *)
(* A dict is the sequence of its <<key, value>> pairs in insertion order   *)
(* (the order json.dump writes them in).  Keys are never inspected by the  *)
(* code, so they are plain TLA+ strings.                                   *)
(*                                                                         *)
(* The store file is <<"absent">>, <<"undecodable">> (bytes that are not   *)
(* UTF-8), <<"garbage">> (text json.load rejects) or <<"json", doc>>, doc  *)
(* being the sequence of JSON objects of                                   *)
(* the top-level array; a JSON object is the sequence of its members       *)
(* <<key, jv>> in document order, jv being <<"number", n>>,                *)
(* <<"string", s>> or <<"array", l>>.                                      *)
(***************************************************************************)
EXTENDS Integers, Sequences, FiniteSets, TLC

VARIABLES
    file,     \* the content of entries.json
    pc,       \* pc[r]: "idle", or "loaded" once the request in slot r has run load_entries
    snap,     \* snap[r]: the list load_entries returned to the request in slot r
    req,      \* the request completed last: [handler, method, id]
    resp,     \* its response
    hist,     \* history, hist[r]: whether the file is as the request in slot r
              \* loaded it, and the first save that replaced it since
    race,     \* history: the two writers of the last lost update, see Complete
    started,  \* the number of requests started (counted where it is bounded)
    fn,       \* the pure function applied (pure-function specifications)
    arg,      \* its argument
    ret       \* its result

vars == <<file, pc, snap, req, resp, hist, race, started, fn, arg, ret>>

-----------------------------------------------------------------------------
(* Sequences *)

Range(s) == {s[i] : i \in DOMAIN s}

\* The sequences over S of length at most n.
SeqsUpTo(S, n) == UNION {[1..k -> S] : k \in 0..n}

-----------------------------------------------------------------------------
(* Python values *)

None == <<"none">>
PyInt(n) == <<"int", n>>
PyStr(s) == <<"str", s>>
PyList(l) == <<"list", l>>

IsInt(v) == v[1] = "int"

\* Truthiness of a Python value: `x or default`, `if x`, `if not x`.
Truthy(v) ==
    CASE v[1] = "none" -> FALSE
      [] v[1] = "int"  -> v[2] # 0
      [] v[1] = "str"  -> Len(v[2]) > 0
      [] v[1] = "list" -> Len(v[2]) > 0
      [] v[1] = "dict" -> TRUE

\* x or y
Or(x, y) == IF Truthy(x) THEN x ELSE y

-----------------------------------------------------------------------------
(* Characters and str methods *)

\* The printable ASCII characters in code point order, from 32; the double
\* quote, the backslash and the backtick are written as names.
Ascii ==
  <<
    " ", "!", "DQUOTE", "#", "$", "%", "&", "'", "(", ")", "*", "+",
    ",", "-", ".", "/", "0", "1", "2", "3", "4", "5", "6", "7",
    "8", "9", ":", ";", "<", "=", ">", "?", "@", "A", "B", "C",
    "D", "E", "F", "G", "H", "I", "J", "K", "L", "M", "N", "O",
    "P", "Q", "R", "S", "T", "U", "V", "W", "X", "Y", "Z", "[",
    "BACKSLASH", "]", "^", "_", "BACKTICK", "a", "b", "c", "d", "e", "f", "g",
    "h", "i", "j", "k", "l", "m", "n", "o", "p", "q", "r", "s",
    "t", "u", "v", "w", "x", "y", "z", "{", "|", "}", "~"
  >>

\* The characters of the model: printable ASCII, tab, newline and the en
\* dash of the reflection title (written EN_DASH).
Chars == Range(Ascii) \cup {"\t", "\n", "EN_DASH"}

\* ord(c)
Ord ==
    [c \in Chars |->
        CASE c = "\t" -> 9
          [] c = "\n" -> 10
          [] c = "EN_DASH" -> 8211
          [] OTHER -> 31 + (CHOOSE i \in DOMAIN Ascii : Ascii[i] = c)]

IsSpace(c) == c \in {" ", "\t", "\n"}

IsDigit(c) == c \in {"0", "1", "2", "3", "4", "5", "6", "7", "8", "9"}

LowerChar ==
    [c \in Chars |-> IF Ord[c] >= 65 /\ Ord[c] <= 90 THEN Ascii[Ord[c] + 32 - 31] ELSE c]

\* s.lower()
Lower(s) == [i \in DOMAIN s |-> LowerChar[s[i]]]

\* s.strip()
Strip(s) ==
    LET keep == {i \in DOMAIN s : ~IsSpace(s[i])}
    IN  IF keep = {} THEN <<>>
        ELSE SubSeq(s, CHOOSE i \in keep : \A j \in keep : i <= j,
                       CHOOSE i \in keep : \A j \in keep : j <= i)

RECURSIVE Split(_, _)
\* s.split(sep), sep one character
Split(s, sep) ==
    LET hits == {i \in DOMAIN s : s[i] = sep}
    IN  IF hits = {} THEN <<s>>
        ELSE LET i == CHOOSE h \in hits : \A g \in hits : h <= g
             IN  <<SubSeq(s, 1, i - 1)>> \o Split(SubSeq(s, i + 1, Len(s)), sep)

\* s.startswith(p)
StartsWith(s, p) == Len(s) >= Len(p) /\ SubSeq(s, 1, Len(p)) = p

\* s[a:b] for 0 <= a <= b
Slice(s, a, b) ==
    LET hi == IF b < Len(s) THEN b ELSE Len(s)
    IN  IF a >= hi THEN <<>> ELSE SubSeq(s, a + 1, hi)

RECURSIVE StrLess(_, _)
\* a < b on str: lexicographic by code point
StrLess(a, b) ==
    IF b = <<>> THEN FALSE
    ELSE IF a = <<>> THEN TRUE
    ELSE IF a[1] = b[1] THEN StrLess(Tail(a), Tail(b))
    ELSE Ord[a[1]] < Ord[b[1]]

RECURSIVE Join(_, _)
\* sep.join(l)
Join(sep, l) ==
    IF l = <<>> THEN <<>>
    ELSE IF Len(l) = 1 THEN l[1]
    ELSE l[1] \o sep \o Join(sep, Tail(l))

RECURSIVE DigitsValue(_)
DigitsValue(s) ==
    IF s = <<>> THEN 0
    ELSE 10 * DigitsValue(SubSeq(s, 1, Len(s) - 1)) + (Ord[s[Len(s)]] - 48)

\* int(s) for a str: surrounding whitespace, an optional sign, then digits
\* in which single underscores may separate digits.  <<"ok", n>> or
\* <<"ValueError">>.
IntOfStr(s) ==
    LET t == Strip(s)
        signed == t # <<>> /\ t[1] \in {"+", "-"}
        body == IF signed THEN Tail(t) ELSE t
        wellFormed ==
            /\ body # <<>>
            /\ \A i \in DOMAIN body : IsDigit(body[i]) \/ body[i] = "_"
            /\ IsDigit(body[1]) /\ IsDigit(body[Len(body)])
            /\ \A i \in DOMAIN body : body[i] = "_" => (i > 1 /\ body[i - 1] # "_")
        digits == SelectSeq(body, IsDigit)
    IN  IF ~wellFormed THEN <<"ValueError">>
        ELSE <<"ok", IF signed /\ t[1] = "-" THEN 0 - DigitsValue(digits) ELSE DigitsValue(digits)>>

\* int(v): an int is itself, a str is parsed, anything else is a TypeError.
IntOf(v) ==
    CASE v[1] = "int" -> <<"ok", v[2]>>
      [] v[1] = "str" -> IntOfStr(v[2])
      [] OTHER -> <<"TypeError">>

-----------------------------------------------------------------------------
(* sorted *)

\* a < b for two values of one type (int or str)
ValLess(a, b) == IF a[1] = "int" THEN a[2] < b[2] ELSE StrLess(a[2], b[2])

RECURSIVE KeyLess(_, _)
\* a < b for two key tuples: sequences of values, compared lexicographically
KeyLess(a, b) ==
    IF b = <<>> THEN FALSE
    ELSE IF a = <<>> THEN TRUE
    ELSE IF a[1] = b[1] THEN KeyLess(Tail(a), Tail(b))
    ELSE ValLess(a[1], b[1])

RECURSIVE SortedPairs(_, _)
\* sorted(...) of <<key, item>> pairs by key: stable; with reverse the keys
\* descend and equal keys still keep their original order.
SortedPairs(pairs, reverse) ==
    IF pairs = <<>> THEN <<>>
    ELSE LET n == Len(pairs)
             rest == SortedPairs(SubSeq(pairs, 1, n - 1), reverse)
             x == pairs[n]
             Before(y) == IF reverse THEN ~KeyLess(y[1], x[1]) ELSE ~KeyLess(x[1], y[1])
             k == Cardinality({i \in DOMAIN rest : Before(rest[i])})
         IN  SubSeq(rest, 1, k) \o <<x>> \o SubSeq(rest, k + 1, Len(rest))

Items(pairs) == [i \in DOMAIN pairs |-> pairs[i][2]]

\* sorted(set of str): ascending
SortedStrs(S) ==
    LET RECURSIVE Build(_)
        Build(T) ==
            IF T = {} THEN <<>>
            ELSE LET m == CHOOSE x \in T : \A y \in T : x = y \/ StrLess(x, y)
                 IN  <<m>> \o Build(T \ {m})
    IN  Build(S)

-----------------------------------------------------------------------------
(* dict *)

Has(d, k) == \E i \in DOMAIN d : d[i][1] = k

Keys(d) == {d[i][1] : i \in DOMAIN d}

\* d.get(k, default)
Get(d, k, default) ==
    IF Has(d, k) THEN d[CHOOSE i \in DOMAIN d : d[i][1] = k][2] ELSE default

\* d[k] = v: an existing key keeps its position, a new key goes last.
SetItem(d, k, v) ==
    IF Has(d, k)
    THEN [i \in DOMAIN d |-> IF d[i][1] = k THEN <<k, v>> ELSE d[i]]
    ELSE Append(d, <<k, v>>)

\* d.setdefault(k, v)
SetDefault(d, k, v) == IF Has(d, k) THEN d ELSE Append(d, <<k, v>>)

UpdateDiscarding(d, items) == items

RECURSIVE Update(_, _)
\* d.update(items), items a sequence of <<key, value>> pairs.
Update(d, items) ==
    IF items = <<>> THEN d
    ELSE Update(SetItem(d, items[1][1], items[1][2]), Tail(items))

-----------------------------------------------------------------------------
(* json *)

\* What json.load makes of a JSON value.
FromJson(jv) ==
    CASE jv[1] = "number" -> PyInt(jv[2])
      [] jv[1] = "string" -> PyStr(jv[2])
      [] jv[1] = "array"  -> PyList(jv[2])

RECURSIVE DigitsOf(_)
\* The decimal digits of a natural number.
DigitsOf(n) ==
    IF n < 10 THEN <<Ascii[n + 17]>> ELSE DigitsOf(n \div 10) \o <<Ascii[(n % 10) + 17]>>

ToJsonQuotingNumbers(v) ==
    CASE v[1] = "int"  -> <<"string", DigitsOf(v[2])>>
      [] v[1] = "str"  -> <<"string", v[2]>>
      [] v[1] = "list" -> <<"array", v[2]>>

\* What json.dump writes for a Python value.
ToJson(v) ==
    CASE v[1] = "int"  -> <<"number", v[2]>>
      [] v[1] = "str"  -> <<"string", v[2]>>
      [] v[1] = "list" -> <<"array", v[2]>>

RECURSIVE ObjectToDict(_)
\* json.load of one object: members in document order, a repeated key
\* keeping its first position and its last value.
ObjectToDict(obj) ==
    IF obj = <<>> THEN <<>>
    ELSE LET n == Len(obj)
         IN  SetItem(ObjectToDict(SubSeq(obj, 1, n - 1)), obj[n][1], FromJson(obj[n][2]))

DictToObject(d) == [i \in DOMAIN d |-> <<d[i][1], ToJson(d[i][2])>>]

json_load(doc) == [i \in DOMAIN doc |-> ObjectToDict(doc[i])]

json_dump(entries) == [i \in DOMAIN entries |-> DictToObject(entries[i])]

-----------------------------------------------------------------------------
(* String constants of the program *)

Empty == <<>>
Art == <<"A", "r", "t">>
Goals == <<"G", "o", "a", "l", "s">>
DreamTag == <<"d", "r", "e", "a", "m">>
LifeDiary == <<"L", "i", "f", "e", " ", "d", "i", "a", "r", "y">>
DailyReflection ==
    <<"D", "a", "i", "l", "y", " ", "r", "e", "f", "l", "e", "c", "t", "i", "o", "n">>
ReflectionTag == <<"r", "e", "f", "l", "e", "c", "t", "i", "o", "n">>
ReflectionTitlePrefix == DailyReflection \o <<" ", "EN_DASH", " ">>
Uploads == <<"u", "p", "l", "o", "a", "d", "s", "/">>
MilestoneTag == <<"m", "i", "l", "e", "s", "t", "o", "n", "e">>

ALLOWED_EXTENSIONS ==
    {<<"p", "n", "g">>, <<"j", "p", "g">>, <<"j", "p", "e", "g">>, <<"g", "i", "f">>}

\* allowed_file(filename)
allowed_file(filename) ==
    LET dots == {i \in DOMAIN filename : filename[i] = "."}
    IN  /\ dots # {}
        /\ LET last == CHOOSE i \in dots : \A j \in dots : j <= i
           IN  Lower(SubSeq(filename, last + 1, Len(filename))) \in ALLOWED_EXTENSIONS

-----------------------------------------------------------------------------
(* Record store *)

\* The body of the loop of load_entries: the keys added over time.
EnsureNewKeysDropOne(e) ==
    LET e1 == SetDefault(e, "category", PyStr(Art))
        e2 == SetDefault(e1, "subcategory", PyStr(Empty))
        e3 == SetDefault(e2, "tags", PyList(<<>>))
        e4 == SetDefault(e3, "dream_theme", PyStr(Empty))
        e5 == SetDefault(e4, "dream_priority", PyStr(Empty))
        e6 == SetDefault(e5, "dream_target_date", PyStr(Empty))
    IN  e6

EnsureNewKeys(e) ==
    LET e1 == SetDefault(e, "category", PyStr(Art))
        e2 == SetDefault(e1, "subcategory", PyStr(Empty))
        e3 == SetDefault(e2, "tags", PyList(<<>>))
        e4 == SetDefault(e3, "dream_theme", PyStr(Empty))
        e5 == SetDefault(e4, "dream_priority", PyStr(Empty))
        e6 == SetDefault(e5, "dream_target_date", PyStr(Empty))
        e7 == SetDefault(e6, "dream_progress", PyInt(0))
    IN  e7

load_entries(f) ==
    IF f[1] = "absent" THEN <<>>
    ELSE IF f[1] = "garbage" THEN <<>>
    ELSE LET entries == json_load(f[2])
         IN  [i \in DOMAIN entries |-> EnsureNewKeys(entries[i])]

\* load_entries() does not return: the file is there and its bytes are not
\* UTF-8 (a write cut off inside a multi-byte character, a file in another
\* encoding).  f.read() inside json.load raises UnicodeDecodeError, which is
\* a ValueError but no json.JSONDecodeError, so that the except clause does
\* not catch it.
LoadRaises(f) == f[1] = "undecodable"

\* The content of the file after save_entries(entries).
save_entries(entries) == <<"json", json_dump(entries)>>

-----------------------------------------------------------------------------
(* ID allocator *)

SetMax(S) == CHOOSE x \in S : \A y \in S : y <= x

next_id_NoIncrement(entries) ==
    IF entries = <<>> THEN 1
    ELSE SetMax({Get(entries[i], "id", PyInt(0))[2] : i \in DOMAIN entries})

next_id(entries) ==
    IF entries = <<>> THEN 1
    ELSE LET existing_ids == [i \in DOMAIN entries |-> Get(entries[i], "id", PyInt(0))[2]]
         IN  SetMax(Range(existing_ids)) + 1

-----------------------------------------------------------------------------
(* Requests and responses *)

\* request.form.get(k, default); request.form is a function from the
\* submitted field names to their values.
FormGet(form, k, default) == IF k \in DOMAIN form THEN form[k] ELSE default

Redirect(endpoint, id) == <<"redirect", endpoint, id>>
NotFound == <<"404", "Entry not found">>
Render(template, ctx) == <<"render", template, ctx>>
ServerError(exc) == <<"500", exc>>

IsRedirect(r) == r[1] = "redirect"
IsRender(r) == r[1] = "render"

\* What a handler did: the response, and the list it passed to save_entries
\* when it saved.
Saved(entries, response) == [save |-> TRUE, entries |-> entries, resp |-> response]
NotSaved(response) == [save |-> FALSE, entries |-> <<>>, resp |-> response]

\* [t.strip() for t in raw_tags.split(",") if t.strip()]
ParseTagsNoFilter(raw_tags) ==
    LET parts == Split(raw_tags, ",")
    IN  [i \in DOMAIN parts |-> Strip(parts[i])]

ParseTags(raw_tags) ==
    LET parts == Split(raw_tags, ",")
        stripped == [i \in DOMAIN parts |-> Strip(parts[i])]
    IN  SelectSeq(stripped, LAMBDA t : t # <<>>)

\* The image path a POST stores: the uploaded file's, when there is one with
\* an allowed extension.  upload is the file name (already a secure one), or
\* the empty string when no file came with the form.
UploadedImage(upload, default) ==
    IF upload # <<>> /\ allowed_file(upload) THEN Uploads \o upload ELSE default

\* The sidebar suggestion lists every page builds.
Categories(entries) ==
    SortedStrs({Get(entries[i], "category", PyStr(Art))[2] :
                   i \in {j \in DOMAIN entries : Truthy(Get(entries[j], "category", None))}})

Subcategories(entries) ==
    SortedStrs({Get(entries[i], "subcategory", PyStr(Empty))[2] :
                   i \in {j \in DOMAIN entries : Truthy(Get(entries[j], "subcategory", None))}})

\* next((e for e in entries if e.get("id") == entry_id), None), as the index
\* of that entry, 0 for None.
FindEntry(entries, entry_id) ==
    LET hits == {i \in DOMAIN entries : Get(entries[i], "id", None) = PyInt(entry_id)}
    IN  IF hits = {} THEN 0 ELSE CHOOSE i \in hits : \A j \in hits : i <= j

-----------------------------------------------------------------------------
(* Handlers.  Each takes the list load_entries returned, the request and    *)
(* the clock ([today |-> "%Y-%m-%d" of datetime.today(), now |->            *)
(* datetime.utcnow().isoformat()]).                                         *)

new_entry(entries, method, form, upload, clock) ==
    IF method = "POST"
    THEN LET image_path == UploadedImage(upload, Empty)
             entry_id == next_id(entries)
             tags == ParseTags(FormGet(form, "tags", Empty))
             entry ==
                 << <<"id", PyInt(entry_id)>>,
                    <<"title", PyStr(form["title"])>>,
                    <<"date", Or(PyStr(FormGet(form, "date", Empty)), PyStr(clock.today))>>,
                    <<"mood", PyStr(FormGet(form, "mood", Empty))>>,
                    <<"category", PyStr(FormGet(form, "category", Art))>>,
                    <<"subcategory", PyStr(FormGet(form, "subcategory", Empty))>>,
                    <<"image_path", PyStr(image_path)>>,
                    <<"notes", PyStr(FormGet(form, "notes", Empty))>>,
                    <<"tags", PyList(tags)>>,
                    <<"created_at", PyStr(clock.now)>>,
                    <<"dream_priority", PyStr(Strip(FormGet(form, "dream_priority", Empty)))>>,
                    <<"dream_progress", PyStr(Strip(FormGet(form, "dream_progress", Empty)))>>,
                    <<"dream_target_date", PyStr(Strip(FormGet(form, "dream_target_date", Empty)))>>,
                    <<"dream_theme", PyStr(Strip(FormGet(form, "dream_theme", Empty)))>> >>
         IN  Saved(Append(entries, entry), Redirect("index", 0))
    ELSE NotSaved(Render("new.html",
                         [categories |-> Categories(entries),
                          subcategories |-> Subcategories(entries)]))

\* edit_entry once the entry is found: i is its index in entries.
EditFound(entries, i, entry_id, method, form, upload) ==
    LET e1 == SetDefault(entries[i], "category", PyStr(Art))
        e2 == SetDefault(e1, "subcategory", PyStr(Empty))
        entry == SetDefault(e2, "tags", PyList(<<>>))
        categories == Categories([entries EXCEPT ![i] = entry])
        subcategories == Subcategories([entries EXCEPT ![i] = entry])
    IN  IF method = "POST"
        THEN LET image_path == UploadedImage(upload, Get(entry, "image_path", PyStr(Empty))[2])
                 tags == ParseTags(FormGet(form, "tags", Empty))
                 updated ==
                     Update(entry,
                       << <<"title", PyStr(form["title"])>>,
                          <<"date", Or(PyStr(FormGet(form, "date", Empty)),
                                       Get(entry, "date", PyStr(Empty)))>>,
                          <<"mood", PyStr(FormGet(form, "mood", Empty))>>,
                          <<"category", PyStr(FormGet(form, "category", Art))>>,
                          <<"subcategory", PyStr(FormGet(form, "subcategory", Empty))>>,
                          <<"image_path", PyStr(image_path)>>,
                          <<"notes", PyStr(FormGet(form, "notes", Empty))>>,
                          <<"tags", PyList(tags)>>,
                          <<"dream_priority", PyStr(Strip(FormGet(form, "dream_priority", Empty)))>>,
                          <<"dream_progress", PyStr(Strip(FormGet(form, "dream_progress", Empty)))>>,
                          <<"dream_target_date", PyStr(Strip(FormGet(form, "dream_target_date", Empty)))>>,
                          <<"dream_theme", PyStr(Strip(FormGet(form, "dream_theme", Empty)))>> >>)
             IN  Saved([entries EXCEPT ![i] = updated], Redirect("entry_detail", entry_id))
        ELSE NotSaved(Render("edit.html",
                             [entry |-> entry,
                              tags_str |-> Join(<<",", " ">>, Get(entry, "tags", PyList(<<>>))[2]),
                              categories |-> categories,
                              subcategories |-> subcategories]))

edit_entry_CreateIfMissing(entries, entry_id, method, form, upload) ==
    LET i == FindEntry(entries, entry_id)
    IN  IF i # 0 THEN EditFound(entries, i, entry_id, method, form, upload)
        ELSE IF method = "POST"
        THEN EditFound(Append(entries, << <<"id", PyInt(entry_id)>> >>), Len(entries) + 1,
                       entry_id, method, form, upload)
        ELSE NotSaved(NotFound)

edit_entry(entries, entry_id, method, form, upload) ==
    LET i == FindEntry(entries, entry_id)
    IN  IF i = 0 THEN NotSaved(NotFound)
        ELSE EditFound(entries, i, entry_id, method, form, upload)

entry_detail_EmptyPageIfMissing(entries, entry_id) ==
    LET i == FindEntry(entries, entry_id)
    IN  IF i = 0 THEN NotSaved(Render("detail.html", [entry |-> <<>>]))
        ELSE NotSaved(Render("detail.html", [entry |-> entries[i]]))

entry_detail(entries, entry_id) ==
    LET i == FindEntry(entries, entry_id)
    IN  IF i = 0 THEN NotSaved(NotFound)
        ELSE NotSaved(Render("detail.html", [entry |-> entries[i]]))

delete_entry_ErrorIfMissing(entries, entry_id) ==
    IF FindEntry(entries, entry_id) = 0 THEN NotSaved(NotFound)
    ELSE Saved(SelectSeq(entries, LAMBDA e : Get(e, "id", None) # PyInt(entry_id)),
               Redirect("index", 0))

delete_entry(entries, entry_id) ==
    LET new_entries == SelectSeq(entries, LAMBDA e : Get(e, "id", None) # PyInt(entry_id))
    IN  Saved(new_entries, Redirect("index", 0))

DreamThemes ==
    << <<"C", "a", "r", "e", "e", "r">>, <<"T", "r", "a", "v", "e", "l">>, Art,
       <<"W", "e", "l", "l", "b", "e", "i", "n", "g">>,
       <<"S", "p", "i", "r", "i", "t", "u", "a", "l">>, <<"G", "r", "o", "w", "t", "h">> >>

DreamPriorities ==
    << <<"H", "i", "g", "h">>, <<"M", "e", "d", "i", "u", "m">>, <<"L", "o", "w">> >>

new_dream(entries, method, form, clock) ==
    IF method = "POST"
    THEN LET title == Strip(form["title"])
             notes == Strip(FormGet(form, "notes", Empty))
             dream_theme == Strip(FormGet(form, "dream_theme", Empty))
             dream_priority == Strip(FormGet(form, "dream_priority", Empty))
             \* request.form.get("dream_progress") or "": a missing field and
             \* an empty one both give ""
             dream_progress == FormGet(form, "dream_progress", Empty)
             dream_target_date == Strip(FormGet(form, "dream_target_date", Empty))
             entry_id == next_id(entries)
             entry ==
                 << <<"id", PyInt(entry_id)>>,
                    <<"title", PyStr(title)>>,
                    <<"date", PyStr(clock.today)>>,
                    <<"mood", PyStr(Empty)>>,
                    <<"category", PyStr(Goals)>>,
                    <<"subcategory", PyStr(Empty)>>,
                    <<"image_path", PyStr(Empty)>>,
                    <<"notes", PyStr(notes)>>,
                    <<"tags", PyList(<<DreamTag>>)>>,
                    <<"created_at", PyStr(clock.now)>>,
                    <<"dream_theme", PyStr(dream_theme)>>,
                    <<"dream_priority", PyStr(dream_priority)>>,
                    <<"dream_progress", PyStr(dream_progress)>>,
                    <<"dream_target_date", PyStr(dream_target_date)>> >>
         IN  Saved(Append(entries, entry), Redirect("dreamboard", 0))
    ELSE NotSaved(Render("new_dream.html",
                         [themes |-> DreamThemes, priorities |-> DreamPriorities]))

\* The list the reflection page shows: the 30 latest daily reflections.
Reflections(entries) ==
    LET chosen == SelectSeq(entries, LAMBDA e :
                      /\ Get(e, "category", None) = PyStr(LifeDiary)
                      /\ Get(e, "subcategory", None) = PyStr(DailyReflection))
        sorted == Items(SortedPairs([i \in DOMAIN chosen |->
                          << <<Get(chosen[i], "date", PyStr(Empty))>>, chosen[i] >>], TRUE))
    IN  Slice(sorted, 0, 30)

daily_reflection(entries, method, form, clock) ==
    LET today_str == clock.today
        notes == Strip(FormGet(form, "notes", Empty))
        mood == Strip(FormGet(form, "mood", Empty))
    IN  IF method = "POST" /\ notes # <<>>
        THEN LET entry_id == next_id(entries)
                 entry ==
                     << <<"id", PyInt(entry_id)>>,
                        <<"title", PyStr(ReflectionTitlePrefix \o today_str)>>,
                        <<"date", PyStr(today_str)>>,
                        <<"mood", PyStr(mood)>>,
                        <<"category", PyStr(LifeDiary)>>,
                        <<"subcategory", PyStr(DailyReflection)>>,
                        <<"image_path", PyStr(Empty)>>,
                        <<"notes", PyStr(notes)>>,
                        <<"tags", PyList(<<ReflectionTag>>)>>,
                        <<"created_at", PyStr(clock.now)>>,
                        <<"dream_theme", PyStr(Empty)>>,
                        <<"dream_priority", PyStr(Empty)>>,
                        <<"dream_target_date", PyStr(Empty)>>,
                        <<"dream_progress", PyInt(0)>> >>
             IN  Saved(Append(entries, entry), Redirect("daily_reflection", 0))
        ELSE NotSaved(Render("reflect.html",
                             [reflections |-> Reflections(entries),
                              categories |-> Categories(entries),
                              subcategories |-> Subcategories(entries)]))

-----------------------------------------------------------------------------
(* Dates: calendar.month_name, datetime.strptime(s, "%Y-%m-%d") and the     *)
(* difference of two dates in days.                                         *)

MonthNames ==
    << <<"J", "a", "n", "u", "a", "r", "y">>,
       <<"F", "e", "b", "r", "u", "a", "r", "y">>,
       <<"M", "a", "r", "c", "h">>,
       <<"A", "p", "r", "i", "l">>,
       <<"M", "a", "y">>,
       <<"J", "u", "n", "e">>,
       <<"J", "u", "l", "y">>,
       <<"A", "u", "g", "u", "s", "t">>,
       <<"S", "e", "p", "t", "e", "m", "b", "e", "r">>,
       <<"O", "c", "t", "o", "b", "e", "r">>,
       <<"N", "o", "v", "e", "m", "b", "e", "r">>,
       <<"D", "e", "c", "e", "m", "b", "e", "r">> >>

\* calendar.month_name[n]: a 13-element list, "" first, indexed as a Python
\* list is (negative indexes count from the end).  <<"ok", name>> or
\* <<"IndexError">>.
MonthName(n) ==
    LET i == IF n < 0 THEN n + 13 ELSE n
    IN  IF i < 0 \/ i > 12 THEN <<"IndexError">>
        ELSE <<"ok", IF i = 0 THEN Empty ELSE MonthNames[i]>>

AllDigits(s) == \A i \in DOMAIN s : IsDigit(s[i])

IsLeap(y) == (y % 4 = 0 /\ y % 100 # 0) \/ y % 400 = 0

DaysInMonth(y, m) ==
    IF m = 2 THEN (IF IsLeap(y) THEN 29 ELSE 28)
    ELSE IF m \in {4, 6, 9, 11} THEN 30 ELSE 31

RECURSIVE DaysBeforeMonth(_, _)
DaysBeforeMonth(y, m) ==
    IF m = 1 THEN 0 ELSE DaysBeforeMonth(y, m - 1) + DaysInMonth(y, m - 1)

\* date(y, m, d).toordinal()
Ordinal(y, m, d) ==
    (y - 1) * 365 + ((y - 1) \div 4) - ((y - 1) \div 100) + ((y - 1) \div 400)
      + DaysBeforeMonth(y, m) + d

\* datetime.strptime(s, "%Y-%m-%d").date(), as its ordinal: the year is four
\* digits, the month 1..12 in one or two digits, the day 1..31 in one or two
\* digits or a space and a digit, nothing before or after, and the date must
\* exist.  <<"ok", ordinal>> or <<"ValueError">>.
ParseDate(s) ==
    LET parts == Split(s, "-")
    IN  IF Len(parts) # 3 THEN <<"ValueError">>
        ELSE
        LET ys == parts[1]
            ms == parts[2]
            ds == IF Len(parts[3]) = 2 /\ parts[3][1] = " " THEN Tail(parts[3]) ELSE parts[3]
            shaped ==
                /\ Len(ys) = 4 /\ AllDigits(ys)
                /\ Len(ms) \in {1, 2} /\ AllDigits(ms)
                /\ Len(ds) \in {1, 2} /\ AllDigits(ds)
                /\ Len(parts[3]) \in {1, 2}
            y == DigitsValue(ys)
            m == DigitsValue(ms)
            d == DigitsValue(ds)
        IN  IF ~shaped THEN <<"ValueError">>
            ELSE IF y < 1 \/ m < 1 \/ m > 12 \/ d < 1 THEN <<"ValueError">>
            ELSE IF d > DaysInMonth(y, m) THEN <<"ValueError">>
            ELSE <<"ok", Ordinal(y, m, d)>>

-----------------------------------------------------------------------------
(* Views *)

DreamKeywords ==
    {<<"d", "r", "e", "a", "m">>, <<"d", "r", "e", "a", "m", "s">>,
     <<"g", "o", "a", "l">>, <<"g", "o", "a", "l", "s">>,
     <<"m", "a", "n", "i", "f", "e", "s", "t">>,
     <<"m", "a", "n", "i", "f", "e", "s", "t", "a", "t", "i", "o", "n">>}

\* dream_keywords of dreamboard()
DreamboardKeywords ==
    {<<"d", "r", "e", "a", "m">>,
     <<"g", "o", "a", "l">>, <<"g", "o", "a", "l", "s">>,
     <<"m", "a", "n", "i", "f", "e", "s", "t">>,
     <<"m", "a", "n", "i", "f", "e", "s", "t", "a", "t", "i", "o", "n">>}

GalleryDreamCategories ==
    {<<"g", "o", "a", "l">>, <<"g", "o", "a", "l", "s">>,
     <<"d", "r", "e", "a", "m", "s">>,
     <<"d", "r", "e", "a", "m", "b", "o", "a", "r", "d">>}

DreamboardCategories == {<<"g", "o", "a", "l">>, <<"g", "o", "a", "l", "s">>}

\* [t.lower() for t in e.get("tags", [])], as a set
LowerTags(e) == {Lower(t) : t \in Range(Get(e, "tags", PyList(<<>>))[2])}

\* (e.get(k) or "") for a str field
StrOrEmpty(e, k) == Or(Get(e, k, None), PyStr(Empty))[2]

\* sorted(l, key=lambda e: e.get("date", ""), reverse=True)
NewestFirst(l) ==
    Items(SortedPairs([i \in DOMAIN l |-> << <<Get(l[i], "date", PyStr(Empty))>>, l[i] >>], TRUE))

\* The test of the loop of compute_dream_entries.
InGalleryDreams(e) ==
    \/ Lower(StrOrEmpty(e, "category")) \in GalleryDreamCategories
    \/ DreamKeywords \cap LowerTags(e) # {}

compute_dream_entries(entries) == NewestFirst(SelectSeq(entries, InGalleryDreams))

\* The sidebar mapping: each category with the sorted subcategories seen
\* under it.
CategorySubcats(entries) ==
    LET both == {i \in DOMAIN entries :
                    /\ Truthy(Get(entries[i], "category", None))
                    /\ Truthy(Get(entries[i], "subcategory", None))}
        cats == {Get(entries[i], "category", None)[2] : i \in both}
    IN  [c \in cats |->
            SortedStrs({Get(entries[i], "subcategory", None)[2] :
                           i \in {j \in both : Get(entries[j], "category", None)[2] = c}})]

Sidebar(entries) ==
    [categories |-> Categories(entries),
     subcategories |-> Subcategories(entries),
     category_subcats |-> CategorySubcats(entries)]

\* index(), the gallery
index(entries) ==
    LET dream_entries == compute_dream_entries(entries)
        regular_entries == SelectSeq(entries, LAMBDA e : e \notin Range(dream_entries))
        reflections_all == SelectSeq(entries, LAMBDA e :
                               /\ Get(e, "category", None) = PyStr(LifeDiary)
                               /\ Get(e, "subcategory", None) = PyStr(DailyReflection))
    IN  NotSaved(Render("index.html",
            [entries |-> NewestFirst(regular_entries),
             dream_entries |-> dream_entries,
             featured_reflections |-> Slice(NewestFirst(reflections_all), 0, 3),
             featured_dreams |-> Slice(dream_entries, 0, 3),
             sidebar |-> Sidebar(entries)]))

\* The month blocks of one year of the timeline, months descending; an
\* exception's name in place of the block of a month that is no month.
MonthBlocks(dated, year) ==
    LET ofYear == SelectSeq(dated, LAMBDA e : Slice(Get(e, "date", None)[2], 0, 4) = year)
        months == SortedStrs({Slice(Get(ofYear[i], "date", None)[2], 5, 7) : i \in DOMAIN ofYear})
        n == Len(months)
    IN  [k \in 1..n |->
            LET month == months[n + 1 - k]
                month_num == IntOfStr(month)
                month_name == IF month_num[1] = "ok" THEN MonthName(month_num[2]) ELSE month_num
            IN  IF month_name[1] # "ok" THEN <<month_name[1]>>
                ELSE << "block", month, month_name[2],
                        SelectSeq(ofYear, LAMBDA e : Slice(Get(e, "date", None)[2], 5, 7) = month) >>]

\* timeline(); current_category is request.args.get("category"), None when
\* the query has none.
timeline(entries, current_category) ==
    LET scoped_entries ==
            IF Truthy(current_category)
            THEN SelectSeq(entries, LAMBDA e :
                     Lower(Get(e, "category", PyStr(Empty))[2]) = Lower(current_category[2]))
            ELSE entries
        dated_entries == NewestFirst(SelectSeq(scoped_entries, LAMBDA e : Truthy(Get(e, "date", None))))
        grouped == SelectSeq(dated_entries, LAMBDA e : Len(Get(e, "date", None)[2]) >= 7)
        years == SortedStrs({Slice(Get(grouped[i], "date", None)[2], 0, 4) : i \in DOMAIN grouped})
        n == Len(years)
        timeline_years == [k \in 1..n |-> <<years[n + 1 - k], MonthBlocks(grouped, years[n + 1 - k])>>]
        raised == {<<k, j>> \in (1..n) \X (1..Len(grouped)) :
                      /\ j <= Len(timeline_years[k][2])
                      /\ timeline_years[k][2][j][1] # "block"}
    IN  IF raised # {}
        THEN LET first == CHOOSE p \in raised : \A q \in raised :
                              p[1] < q[1] \/ (p[1] = q[1] /\ p[2] <= q[2])
             IN  NotSaved(ServerError(timeline_years[first[1]][2][first[2]][1]))
        ELSE NotSaved(Render("timeline.html",
                             [timeline_years |-> timeline_years,
                              current_category |-> current_category,
                              sidebar |-> Sidebar(entries)]))

\* prog of is_milestone and sort_key: int(e.get("dream_progress") or 0), 0
\* when int() raises TypeError or ValueError.
Progress(e) ==
    LET prog_raw == Or(Get(e, "dream_progress", None), PyInt(0))
        prog == IntOf(prog_raw)
    IN  IF prog[1] = "ok" THEN prog[2] ELSE 0

is_milestone_Above80(e) == Progress(e) > 80 \/ MilestoneTag \in LowerTags(e)

is_milestone(e) == Progress(e) >= 80 \/ MilestoneTag \in LowerTags(e)

milestones(entries) ==
    LET milestone_entries == SelectSeq(entries, is_milestone)
        sorted == Items(SortedPairs(
                      [i \in DOMAIN milestone_entries |->
                          << <<PyInt(0 - Progress(milestone_entries[i])),
                               PyStr(StrOrEmpty(milestone_entries[i], "dream_target_date"))>>,
                             milestone_entries[i] >>], FALSE))
    IN  NotSaved(Render("milestones.html",
                        [entries |-> sorted, sidebar |-> Sidebar(entries)]))

\* The test of the loop of dreamboard().
InDreamboard(e) ==
    \/ Lower(StrOrEmpty(e, "category")) \in DreamboardCategories
    \/ DreamboardKeywords \cap LowerTags(e) # {}

\* dreamboard(); theme and priority are request.args.get(...), None when the
\* query has none.
dreamboard(entries, theme, priority) ==
    LET chosen == SelectSeq(entries, InDreamboard)
        dream_entries ==
            [i \in DOMAIN chosen |->
                LET e1 == SetDefault(chosen[i], "dream_theme", Get(chosen[i], "category", PyStr(Empty)))
                    e2 == SetDefault(e1, "dream_priority", PyStr(Empty))
                    e3 == SetDefault(e2, "dream_target_date", PyStr(Empty))
                IN  SetDefault(e3, "dream_progress", PyInt(0))]
        current_theme == Or(theme, None)
        current_priority == Or(priority, None)
        themes == SortedStrs({Get(dream_entries[i], "dream_theme", None)[2] :
                     i \in {j \in DOMAIN dream_entries : Truthy(Get(dream_entries[j], "dream_theme", None))}})
        byTheme ==
            IF Truthy(current_theme)
            THEN SelectSeq(dream_entries, LAMBDA e :
                     Lower(StrOrEmpty(e, "dream_theme")) = Lower(current_theme[2]))
            ELSE dream_entries
        byPriority ==
            IF Truthy(current_priority)
            THEN SelectSeq(byTheme, LAMBDA e :
                     Lower(StrOrEmpty(e, "dream_priority")) = Lower(current_priority[2]))
            ELSE byTheme
        sorted == Items(SortedPairs(
                      [i \in DOMAIN byPriority |->
                          << <<PyStr(StrOrEmpty(byPriority[i], "dream_target_date")),
                               PyStr(StrOrEmpty(byPriority[i], "date"))>>,
                             byPriority[i] >>], FALSE))
    IN  NotSaved(Render("dreamboard.html",
                        [entries |-> sorted, themes |-> themes,
                         priorities |-> DreamPriorities,
                         current_theme |-> current_theme,
                         current_priority |-> current_priority,
                         sidebar |-> Sidebar(entries)]))

\* The values of a field that some entry has non-empty, in the order in
\* which the entries first show them, each with the number of entries that
\* have it: the defaultdict(int) counts of stats().
Counts(entries, k) ==
    LET has == SelectSeq(entries, LAMBDA e : Truthy(Get(e, k, None)))
        firsts == SelectSeq([i \in DOMAIN has |-> i], LAMBDA i :
                      \A j \in 1..(i - 1) : Get(has[j], k, None) # Get(has[i], k, None))
    IN  [n \in DOMAIN firsts |->
            << <<PyInt(Cardinality({j \in DOMAIN has :
                                       Get(has[j], k, None) = Get(has[firsts[n]], k, None)}))>>,
               Get(has[firsts[n]], k, None)[2] >>]

\* stats()
stats(entries, clock) ==
    LET current_year == Slice(clock.today, 0, 4)
        this_year_entries == SelectSeq(entries, LAMBDA e :
                                 /\ Truthy(Get(e, "date", None))
                                 /\ StartsWith(Get(e, "date", None)[2], current_year))
        today == ParseDate(clock.today)[2]
        Delta(e) == ParseDate(StrOrEmpty(e, "dream_target_date"))
        due == SelectSeq(entries, LAMBDA e :
                   /\ StrOrEmpty(e, "dream_target_date") # <<>>
                   /\ Delta(e)[1] = "ok"
                   /\ Delta(e)[2] - today >= 0
                   /\ Delta(e)[2] - today <= 60)
        upcoming == SortedPairs([i \in DOMAIN due |-> << <<PyInt(Delta(due[i])[2] - today)>>, due[i] >>], FALSE)
        top_categories == SortedPairs(Counts(entries, "category"), TRUE)
        top_moods == SortedPairs(Counts(entries, "mood"), TRUE)
    IN  NotSaved(Render("stats.html",
                        [total_entries |-> Len(entries),
                         this_year_count |-> Len(this_year_entries),
                         top_categories |-> [i \in DOMAIN top_categories |->
                                                <<top_categories[i][2], top_categories[i][1][1][2]>>],
                         top_moods |-> [i \in DOMAIN top_moods |->
                                           <<top_moods[i][2], top_moods[i][1][1][2]>>],
                         upcoming_entries |-> Items(upcoming),
                         sidebar |-> Sidebar(entries)]))

-----------------------------------------------------------------------------
(* Requests in flight.  A request occupies a slot from its load_entries()   *)
(* to its response; the server runs the requests of different slots         *)
(* concurrently (app.run serves each request on its own thread), and        *)
(* nothing orders their loads and saves.  save_entries replaces the whole   *)
(* file in one step.                                                        *)

Slots == {"r1", "r2"}

\* The largest id a create request may assign.
MaxId == 2

\* The ids detail, edit and delete requests name: every id that can be
\* stored, and one that cannot.
RequestIds == 1..(MaxId + 1)

\* No change, and no pair of writers.
NoChange == [op |-> "none", id |-> 0, resp |-> None, entry |-> <<>>]
NoRace == [first |-> NoChange, second |-> NoChange, loaded |-> <<>>]

NoHist == [clean |-> FALSE, first |-> NoChange]

Request(handler, method, id) == [handler |-> handler, method |-> method, id |-> id]

\* What a saving request changed, from the list it loaded to the list it
\* saved: the entry it added, the entry as it edited it, or the entry it
\* removed (the empty dict when it removed nothing).
Change(request, loaded, out) ==
    IF request.handler = "edit_entry"
    THEN [op |-> "edit", id |-> request.id, resp |-> out.resp,
          entry |-> out.entries[FindEntry(loaded, request.id)]]
    ELSE IF request.handler = "delete_entry"
    THEN [op |-> "remove", id |-> request.id, resp |-> out.resp,
          entry |-> IF FindEntry(loaded, request.id) = 0 THEN <<>>
                    ELSE loaded[FindEntry(loaded, request.id)]]
    ELSE [op |-> "add", id |-> Get(out.entries[Len(out.entries)], "id", None)[2],
          resp |-> out.resp, entry |-> out.entries[Len(out.entries)]]

\* entries = load_entries(), the first statement of every handler.  The
\* specification says what becomes of `started`.
Load(r) ==
    /\ pc[r] = "idle"
    /\ ~LoadRaises(file)
    /\ pc' = [pc EXCEPT ![r] = "loaded"]
    /\ snap' = [snap EXCEPT ![r] = load_entries(file)]
    /\ hist' = [hist EXCEPT ![r] = [clean |-> TRUE, first |-> NoChange]]
    /\ UNCHANGED <<file, req, resp, race, fn, arg, ret>>

\* A request whose load_entries() raises: the exception leaves the handler
\* and the server answers 500; the file is not touched.
LoadFails(r, request) ==
    /\ pc[r] = "idle"
    /\ LoadRaises(file)
    /\ req' = request
    /\ resp' = ServerError("UnicodeDecodeError")
    /\ UNCHANGED <<file, pc, snap, hist, race, started, fn, arg, ret>>

\* The handler's variable `entries` after its load_entries().
EntriesReloaded(r) == load_entries(file)

Entries(r) == snap[r]

\* The rest of a handler after load_entries(): out is what the handler
\* computed from Entries(r).
Complete(r, request, out) ==
    /\ pc[r] = "loaded"
    /\ pc' = [pc EXCEPT ![r] = "idle"]
    /\ snap' = [snap EXCEPT ![r] = <<>>]
    /\ req' = request
    /\ resp' = out.resp
    /\ file' = IF out.save THEN save_entries(out.entries) ELSE file
    /\ IF out.save
       THEN LET change == Change(request, Entries(r), out)
            IN  /\ hist' = [q \in Slots |->
                              IF q = r \/ pc[q] = "idle" THEN NoHist
                              ELSE IF hist[q].clean /\ hist[r].clean
                                   THEN [clean |-> FALSE, first |-> change]
                                   ELSE [clean |-> FALSE, first |-> hist[q].first]]
                /\ race' = IF hist[r].first = NoChange THEN NoRace
                           ELSE [first |-> hist[r].first, second |-> change,
                                 loaded |-> Entries(r)]
       ELSE /\ hist' = [hist EXCEPT ![r] = NoHist]
            /\ race' = race
    /\ UNCHANGED <<started, fn, arg, ret>>

NewEntryGet(r) ==
    /\ pc[r] = "loaded"
    /\ Complete(r, Request("new_entry", "GET", 0),
                new_entry(Entries(r), "GET", <<>>, Empty, <<>>))

NewEntryPost(r, forms, uploads, clocks) ==
    \E form \in forms, upload \in uploads, clock \in clocks :
        /\ pc[r] = "loaded"
        /\ next_id(Entries(r)) <= MaxId
        /\ Complete(r, Request("new_entry", "POST", 0),
                    new_entry(Entries(r), "POST", form, upload, clock))

EntryDetail(r) ==
    \E entry_id \in RequestIds :
        /\ pc[r] = "loaded"
        /\ Complete(r, Request("entry_detail", "GET", entry_id),
                    entry_detail(Entries(r), entry_id))

EditEntryGet(r) ==
    \E entry_id \in RequestIds :
        /\ pc[r] = "loaded"
        /\ Complete(r, Request("edit_entry", "GET", entry_id),
                    edit_entry(Entries(r), entry_id, "GET", <<>>, Empty))

EditEntryPost(r, forms, uploads) ==
    \E entry_id \in RequestIds, form \in forms, upload \in uploads :
        /\ pc[r] = "loaded"
        /\ Complete(r, Request("edit_entry", "POST", entry_id),
                    edit_entry(Entries(r), entry_id, "POST", form, upload))

DeleteEntry(r) ==
    \E entry_id \in RequestIds :
        /\ pc[r] = "loaded"
        /\ Complete(r, Request("delete_entry", "POST", entry_id),
                    delete_entry(Entries(r), entry_id))

NewDreamGet(r) ==
    /\ pc[r] = "loaded"
    /\ Complete(r, Request("new_dream", "GET", 0), new_dream(Entries(r), "GET", <<>>, <<>>))

NewDreamPost(r, forms, clocks) ==
    \E form \in forms, clock \in clocks :
        /\ pc[r] = "loaded"
        /\ next_id(Entries(r)) <= MaxId
        /\ Complete(r, Request("new_dream", "POST", 0),
                    new_dream(Entries(r), "POST", form, clock))

DailyReflectionGet(r, clocks) ==
    \E clock \in clocks :
        /\ pc[r] = "loaded"
        /\ Complete(r, Request("daily_reflection", "GET", 0),
                    daily_reflection(Entries(r), "GET", <<>>, clock))

DailyReflectionPost(r, forms, clocks) ==
    \E form \in forms, clock \in clocks :
        /\ pc[r] = "loaded"
        /\ next_id(Entries(r)) <= MaxId
        /\ Complete(r, Request("daily_reflection", "POST", 0),
                    daily_reflection(Entries(r), "POST", form, clock))

Index(r) ==
    /\ pc[r] = "loaded"
    /\ Complete(r, Request("index", "GET", 0), index(Entries(r)))

Timeline(r, categories) ==
    \E current_category \in categories :
        /\ pc[r] = "loaded"
        /\ Complete(r, Request("timeline", "GET", 0), timeline(Entries(r), current_category))

Milestones(r) ==
    /\ pc[r] = "loaded"
    /\ Complete(r, Request("milestones", "GET", 0), milestones(Entries(r)))

Dreamboard(r, themes, priorities) ==
    \E theme \in themes, priority \in priorities :
        /\ pc[r] = "loaded"
        /\ Complete(r, Request("dreamboard", "GET", 0), dreamboard(Entries(r), theme, priority))

Stats(r, clocks) ==
    \E clock \in clocks :
        /\ pc[r] = "loaded"
        /\ Complete(r, Request("stats", "GET", 0), stats(Entries(r), clock))

-----------------------------------------------------------------------------
(* Inputs *)

Date_2024_03_01 == <<"2", "0", "2", "4", "-", "0", "3", "-", "0", "1">>
Date_2024_03_15 == <<"2", "0", "2", "4", "-", "0", "3", "-", "1", "5">>
Now_2024_03_15 == Date_2024_03_15 \o <<"T", "0", "9", ":", "0", "0", ":", "0", "0">>

TheClock == [today |-> Date_2024_03_15, now |-> Now_2024_03_15]

\* The clock as the request in slot r reads it: utcnow() has microsecond
\* resolution, and the requests of two slots read it at different instants.
ClockOf(r) ==
    [today |-> Date_2024_03_15,
     now |-> Now_2024_03_15 \o (IF r = "r1" THEN <<".", "1">> ELSE <<".", "2">>)]

FormA ==
    [title |-> <<"A">>, date |-> Date_2024_03_01, mood |-> <<"o", "k">>,
     category |-> Art, subcategory |-> Empty, notes |-> <<"n">>,
     tags |-> <<"a", ",", " ", "b">>, dream_priority |-> Empty,
     dream_progress |-> Empty, dream_target_date |-> Empty, dream_theme |-> Empty]

\* A form as a hand-written client may post it: fields missing, tags with
\* empty parts, a date and a progress that are no date and no number.
FormB ==
    [title |-> <<"B">>, date |-> <<"s", "o", "m", "e", "d", "a", "y">>,
     tags |-> <<",", " ", "D", "r", "e", "a", "m", "s", " ", ",", ",">>,
     dream_progress |-> <<"a", "b", "c">>,
     dream_target_date |-> <<"s", "o", "o", "n">>]

FormEdit ==
    [title |-> <<"E">>, date |-> Empty, mood |-> Empty,
     category |-> Goals, subcategory |-> Empty, notes |-> Empty,
     tags |-> <<"g", "o", "a", "l">>, dream_priority |-> <<" ", "H", "i", "g", "h">>,
     dream_progress |-> <<"8", "5">>, dream_target_date |-> Date_2024_03_15,
     dream_theme |-> Empty]

FormDream ==
    [title |-> <<" ", "D", " ">>, notes |-> Empty, dream_theme |-> Empty,
     dream_priority |-> Empty, dream_progress |-> <<"9", "0">>,
     dream_target_date |-> Empty]

FormReflect == [notes |-> <<"r">>, mood |-> Empty]
FormReflectBlank == [notes |-> <<" ">>, mood |-> Empty]

NoUpload == {Empty}

Photo == <<"a", ".", "P", "N", "G">>
Script == <<"a", ".", "p", "y">>

SeqEntryForms == {FormA, FormB}
SeqEditForms == {FormEdit}
\* A create request comes without a file or with one of a refused type, an
\* edit request without a file or with a picture.
SeqCreateUploads == {Empty, Script}
SeqEditUploads == {Empty, Photo}
SeqClocks == {TheClock}

-----------------------------------------------------------------------------
(* Spec: the mutating requests of two slots, interleaved in every way.      *)

Init ==
    /\ file = <<"absent">>
    /\ pc = [r \in Slots |-> "idle"]
    /\ snap = [r \in Slots |-> <<>>]
    /\ req = Request("none", "", 0)
    /\ resp = None
    /\ hist = [r \in Slots |-> NoHist]
    /\ race = NoRace
    /\ started = 0
    /\ fn = "none"
    /\ arg = None
    /\ ret = None

\* The number of requests a behaviour of Spec starts.
MaxRequests == 4

Begin(r) ==
    /\ started < MaxRequests
    /\ started' = started + 1
    /\ Load(r)

Next ==
    \E r \in Slots :
        \/ Begin(r)
        \/ NewEntryPost(r, {FormA}, NoUpload, {ClockOf(r)})
        \/ NewDreamPost(r, {FormDream}, {ClockOf(r)})
        \/ DailyReflectionPost(r, {FormReflect, FormReflectBlank}, {ClockOf(r)})
        \/ EditEntryPost(r, {FormEdit}, NoUpload)
        \/ DeleteEntry(r)

Spec == Init /\ [][Next]_vars

-----------------------------------------------------------------------------
(* SeqSpec: requests that do not overlap.  A request starts only when no    *)
(* other one is in flight, so each handler runs from its load to its        *)
(* response with the file to itself.                                        *)

SeqSlot == "r1"

SeqBegin(r) ==
    /\ \A q \in Slots : pc[q] = "idle"
    /\ Load(r)
    /\ UNCHANGED started

SeqNext ==
    \/ SeqBegin(SeqSlot)
    \/ NewEntryGet(SeqSlot)
    \/ NewEntryPost(SeqSlot, SeqEntryForms, SeqCreateUploads, SeqClocks)
    \/ EntryDetail(SeqSlot)
    \/ EditEntryGet(SeqSlot)
    \/ EditEntryPost(SeqSlot, SeqEditForms, SeqEditUploads)
    \/ DeleteEntry(SeqSlot)
    \/ NewDreamGet(SeqSlot)
    \/ NewDreamPost(SeqSlot, {FormDream}, SeqClocks)
    \/ DailyReflectionGet(SeqSlot, SeqClocks)
    \/ DailyReflectionPost(SeqSlot, {FormReflect, FormReflectBlank}, SeqClocks)

SeqSpec == Init /\ [][SeqNext]_vars

-----------------------------------------------------------------------------
(* ViewSpec: the pages that show the collection, requested one at a time    *)
(* between requests that create and edit entries with well-formed and       *)
(* malformed field values.                                                  *)

ViewNext ==
    \/ SeqBegin(SeqSlot)
    \/ NewEntryPost(SeqSlot, {FormA, FormB}, NoUpload, SeqClocks)
    \/ NewDreamPost(SeqSlot, {FormDream}, SeqClocks)
    \/ EditEntryPost(SeqSlot, {FormEdit}, NoUpload)
    \/ Index(SeqSlot)
    \/ Timeline(SeqSlot, {None, PyStr(Empty), PyStr(<<"a", "r", "t">>)})
    \/ Milestones(SeqSlot)
    \/ Dreamboard(SeqSlot, {None, PyStr(<<"a", "r", "t">>)}, {None, PyStr(<<"h", "i", "g", "h">>)})
    \/ Stats(SeqSlot, SeqClocks)

ViewSpec == Init /\ [][ViewNext]_vars

-----------------------------------------------------------------------------
(* StoreSpec: requests that name an entry by its id, one at a time, on a    *)
(* store of any content: no file, a file json.load rejects, records of      *)
(* earlier versions that lack keys, records as the handlers write them.     *)

\* The members of a record as new_entry writes it.
Members(id, title) ==
    << <<"id", <<"number", id>>>>,
       <<"title", <<"string", title>>>>,
       <<"date", <<"string", Date_2024_03_01>>>>,
       <<"mood", <<"string", <<"o", "k">>>>>>,
       <<"category", <<"string", Goals>>>>,
       <<"subcategory", <<"string", <<"s">>>>>>,
       <<"image_path", <<"string", Uploads \o Photo>>>>,
       <<"notes", <<"string", <<"n">>>>>>,
       <<"tags", <<"array", <<DreamTag>>>>>>,
       <<"created_at", <<"string", Now_2024_03_15>>>>,
       <<"dream_priority", <<"string", <<"L", "o", "w">>>>>>,
       <<"dream_progress", <<"string", <<"8", "5">>>>>>,
       <<"dream_target_date", <<"string", Date_2024_03_15>>>>,
       <<"dream_theme", <<"string", Art>>>> >>

\* The keys load_entries adds, and the others.
NewKeys ==
    {"category", "subcategory", "tags", "dream_theme", "dream_priority",
     "dream_target_date", "dream_progress"}
OldKeys == {"id", "title", "date", "mood", "image_path", "notes", "created_at"}

\* The record without the keys of `missing`.
ObjectWithout(id, title, missing) ==
    SelectSeq(Members(id, title), LAMBDA m : m[1] \notin missing)

StoreObjects ==
    {ObjectWithout(1, <<"A">>, {}),
     ObjectWithout(1, <<"L">>, NewKeys),
     ObjectWithout(2, <<"B">>, {"tags", "dream_progress", "mood"}),
     ObjectWithout(2, <<"N">>, {"id"})}

\* The number of records of an initial store.
MaxStored == 2

InitialStores ==
    {<<"absent">>, <<"garbage">>} \cup {<<"json", doc>> : doc \in SeqsUpTo(StoreObjects, MaxStored)}

StoreInit ==
    /\ file \in InitialStores
    /\ pc = [r \in Slots |-> "idle"]
    /\ snap = [r \in Slots |-> <<>>]
    /\ req = Request("none", "", 0)
    /\ resp = None
    /\ hist = [r \in Slots |-> NoHist]
    /\ race = NoRace
    /\ started = 0
    /\ fn = "none"
    /\ arg = None
    /\ ret = None

StoreNext ==
    \/ SeqBegin(SeqSlot)
    \/ EntryDetail(SeqSlot)
    \/ EditEntryGet(SeqSlot)
    \/ EditEntryPost(SeqSlot, {FormEdit}, NoUpload)
    \/ DeleteEntry(SeqSlot)

StoreSpec == StoreInit /\ [][StoreNext]_vars

\* The entries a request that began now would load, and their ids.
Stored == load_entries(file)

StoredIds == {Get(Stored[i], "id", None) : i \in DOMAIN Stored}

\* The step that completes a request of one of `handlers`, with `method`,
\* for an id that no entry of the store has.
MissingIdStep(handlers, methods) ==
    /\ pc[SeqSlot] = "loaded"
    /\ pc'[SeqSlot] = "idle"
    /\ req'.handler \in handlers
    /\ req'.method \in methods
    /\ PyInt(req'.id) \notin StoredIds

C5_MissingIdNotFound ==
    [][MissingIdStep({"entry_detail", "edit_entry"}, {"GET", "POST"})
          => /\ resp' = NotFound
             /\ file' = file]_vars

\* An edit was posted for id 3, answered "not found", while two records are
\* stored.
C5_Witness ==
    /\ req.handler = "edit_entry" /\ req.method = "POST" /\ req.id = 3
    /\ resp = NotFound
    /\ Len(Stored) = 2

\* The step that completes an edit_entry POST for an id that an entry of the
\* store has.
EditExistingStep ==
    /\ pc[SeqSlot] = "loaded"
    /\ pc'[SeqSlot] = "idle"
    /\ req'.handler = "edit_entry"
    /\ req'.method = "POST"
    /\ PyInt(req'.id) \in StoredIds

\* C13: an edit_entry POST for an id that an entry has leaves the collection
\* with as many entries as before, in the same order; the entry it edits
\* (the first with that id) keeps its id and its created_at, and every other
\* entry is as it was.
C13_EditFrame ==
    [][EditExistingStep =>
          LET before == load_entries(file)
              after == load_entries(file')
              i == FindEntry(before, req'.id)
          IN  /\ Len(after) = Len(before)
              /\ Get(after[i], "id", None) = Get(before[i], "id", None)
              /\ Get(after[i], "created_at", None) = Get(before[i], "created_at", None)
              /\ \A j \in DOMAIN before : j # i => after[j] = before[j]]_vars

\* Entry 1 of two was edited: it has the title of the form and the
\* created_at it had, and entry 2 is the record without tags and mood.
C13_Witness ==
    /\ req = Request("edit_entry", "POST", 1)
    /\ IsRedirect(resp)
    /\ Len(Stored) = 2
    /\ Get(Stored[1], "title", None) = PyStr(FormEdit.title)
    /\ Get(Stored[1], "created_at", None) = PyStr(Now_2024_03_15)
    /\ Stored[2] = EnsureNewKeys(ObjectToDict(ObjectWithout(2, <<"B">>, {"tags", "dream_progress", "mood"})))

-----------------------------------------------------------------------------
(* FnSpec: the functions of the record store, the id allocator and the      *)
(* dream selection, each applied once to an argument drawn from a bounded   *)
(* set.                                                                     *)

\* The ids of the lists next_id is given.
IdArgs == {1, 2, 3, 7}

\* The length of those lists.
MaxArgLen == 3

\* Lists of entries with nothing but an id, or not even that.
IdLists ==
    SeqsUpTo({<<>>} \cup {<< <<"id", PyInt(n)>> >> : n \in IdArgs}, MaxArgLen)

\* Stored records that lack any of the keys load_entries adds and at most
\* one of the others, and one in which a key comes twice.
LegacyObjects ==
    {ObjectWithout(1, <<"A">>, new \cup old) :
        new \in SUBSET NewKeys, old \in {{}} \cup {{k} : k \in OldKeys}}
    \cup {Append(ObjectWithout(1, <<"A">>, {"tags"}), <<"mood", <<"string", Empty>>>>)}

FileArgs ==
    {<<"absent">>, <<"garbage">>, <<"json", <<>>>>}
    \cup {<<"json", <<obj>>>> : obj \in LegacyObjects}
    \cup {<<"json", <<ObjectWithout(1, <<"L">>, NewKeys), obj>>>> : obj \in StoreObjects}

\* Entries of every category and tag list the dream selection tells apart.
DreamEntries ==
    {ObjectToDict(
        [Members(1, <<"A">>) EXCEPT ![5] = <<"category", <<"string", c>>>>,
                                   ![9] = <<"tags", <<"array", t>>>>]) :
        c \in {Empty, Art, <<"G", "o", "a", "l">>, <<"G", "O", "A", "L", "S">>,
               <<"D", "r", "e", "a", "m", "s">>,
               <<"d", "r", "e", "a", "m", "b", "o", "a", "r", "d">>},
        t \in {<<>>, <<DreamTag>>, << <<"D", "r", "e", "a", "m", "s">> >>,
               << <<"x">>, <<"G", "o", "a", "l">> >>, << <<"g", "o", "a", "l", "s">> >>,
               << <<"M", "a", "n", "i", "f", "e", "s", "t">> >>,
               << <<"m", "a", "n", "i", "f", "e", "s", "t", "a", "t", "i", "o", "n">> >>,
               << MilestoneTag, <<"d", "r", "e", "a", "m", "y">> >>}}

\* An entry as load_entries returns it, with the fields the milestones view
\* reads.
GoalEntry(id, progress, target, tags) ==
    EnsureNewKeys(<< <<"id", PyInt(id)>>,
                     <<"dream_progress", progress>>,
                     <<"dream_target_date", PyStr(target)>>,
                     <<"tags", PyList(tags)>> >>)

Goal90 == GoalEntry(1, PyStr(<<"9", "0">>), Date_2024_03_15, <<>>)
Goal50 == GoalEntry(2, PyStr(<<"5", "0">>), Date_2024_03_01, <<>>)
Goal85 == GoalEntry(3, PyStr(<<"8", "5">>), Date_2024_03_15, <<>>)
Goal85Sooner == GoalEntry(4, PyStr(<<" ", "8", "5">>), Date_2024_03_01, <<DreamTag>>)
Goal85Undated == GoalEntry(5, PyStr(<<"8", "5">>), Empty, <<>>)
Goal80 == GoalEntry(6, PyStr(<<"8", "0">>), <<"s", "o", "o", "n">>, <<>>)
GoalTagged == GoalEntry(7, PyStr(<<"a", "b", "c">>), Date_2024_03_01,
                        <<DreamTag, <<"M", "i", "l", "e", "s", "t", "o", "n", "e">> >>)
GoalTagged50 == GoalEntry(8, PyStr(<<"5", "0">>), Empty, <<MilestoneTag>>)
GoalUnset == EnsureNewKeys(<< <<"id", PyInt(9)>> >>)

GoalEntries ==
    {Goal90, Goal50, Goal85, Goal85Sooner, Goal85Undated, Goal80, GoalTagged,
     GoalTagged50, GoalUnset}

FnInit ==
    /\ file = <<"absent">>
    /\ pc = [r \in Slots |-> "idle"]
    /\ snap = [r \in Slots |-> <<>>]
    /\ req = Request("none", "", 0)
    /\ resp = None
    /\ hist = [r \in Slots |-> NoHist]
    /\ race = NoRace
    /\ started = 0
    /\ fn = "none"
    /\ arg \in {<<"ids", l>> : l \in IdLists}
              \cup {<<"file", f>> : f \in FileArgs}
              \cup {<<"entry", e>> : e \in DreamEntries}
              \cup {<<"goals", l>> : l \in SeqsUpTo(GoalEntries, MaxArgLen)}
    /\ ret = None

Call(name, result) ==
    /\ fn = "none"
    /\ fn' = name
    /\ ret' = result
    /\ UNCHANGED <<file, pc, snap, req, resp, hist, race, started, arg>>

CallNextId ==
    /\ arg[1] = "ids"
    /\ Call("next_id", PyInt(next_id(arg[2])))

CallLoad ==
    /\ arg[1] = "file"
    /\ Call("load_entries", <<"entries", load_entries(arg[2])>>)

\* save(load(store)) twice over.
CallSaveLoad ==
    /\ arg[1] = "file"
    /\ LET load1 == load_entries(arg[2])
           save1 == save_entries(load1)
           load2 == load_entries(save1)
           save2 == save_entries(load2)
       IN  Call("save_load", [load1 |-> load1, save1 |-> save1, load2 |-> load2, save2 |-> save2])

\* The gallery and the unfiltered dreamboard of a collection of one entry.
CallDreamViews ==
    /\ arg[1] = "entry"
    /\ Call("dream_views",
            [gallery |-> index(<<arg[2]>>).resp[3].dream_entries,
             dreamboard |-> dreamboard(<<arg[2]>>, None, None).resp[3].entries])

\* The entries of the milestones page.
CallMilestones ==
    /\ arg[1] = "goals"
    /\ Call("milestones", milestones(arg[2]).resp[3].entries)

FnNext == CallNextId \/ CallLoad \/ CallSaveLoad \/ CallDreamViews \/ CallMilestones

FnSpec == FnInit /\ [][FnNext]_vars

\* The ids the entries of a list have.
PresentIds(entries) ==
    {Get(entries[i], "id", None)[2] : i \in {j \in DOMAIN entries : Has(entries[j], "id")}}

\* C10: next_id gives 1 for the empty list, otherwise the largest id of the
\* list plus 1 (8 for ids 3 and 7): an id larger than every id of the list.
C10_NextId ==
    fn = "next_id" =>
        LET ids == PresentIds(arg[2])
        IN  /\ arg[2] = <<>> => ret = PyInt(1)
            /\ ids # {} => /\ ret[2] - 1 \in ids
                           /\ \A n \in ids : n <= ret[2] - 1
            /\ \A n \in ids : n < ret[2]
            /\ arg[2] = << << <<"id", PyInt(3)>> >>, << <<"id", PyInt(7)>> >> >> => ret = PyInt(8)

\* next_id was given ids 3 and 7 and returned 8.
C10_Witness ==
    /\ fn = "next_id"
    /\ arg[2] = << << <<"id", PyInt(3)>> >>, << <<"id", PyInt(7)>> >> >>
    /\ ret = PyInt(8)

AllKeys == NewKeys \cup OldKeys

\* The default the data model gives a field.
DefaultOf(k) ==
    CASE k = "category" -> PyStr(Art)
      [] k = "tags" -> PyList(<<>>)
      [] k = "dream_progress" -> PyInt(0)
      [] OTHER -> PyStr(Empty)

\* Record i of the loaded file and the entry load_entries made of it.
StoredDict(i) == ObjectToDict(arg[2][2][i])

\* Entry i has every key of `keys`; a key of them the record lacks has its
\* default and a key the record has keeps its value.
Backfilled(i, keys) ==
    \A k \in keys :
        /\ Has(ret[2][i], k)
        /\ Get(ret[2][i], k, None) =
              (IF Has(StoredDict(i), k) THEN Get(StoredDict(i), k, None) ELSE DefaultOf(k))

LoadedJson == fn = "load_entries" /\ arg[2][1] = "json"

\* C6, as stated: after load every entry has every field of the data model,
\* whichever the stored record lacks being backfilled with its default.
C6_AllFields_AsStated ==
    LoadedJson => \A i \in DOMAIN ret[2] : Backfilled(i, AllKeys)

\* C6, amended: after load every entry has category, subcategory, tags,
\* dream_theme, dream_priority, dream_target_date and dream_progress,
\* whichever of them the stored record lacks being backfilled with its
\* default (category "Art", tags empty, dream_progress 0, the others empty);
\* id, title, date, mood, image_path, notes and created_at are not
\* backfilled: the entry has them exactly when the stored record has them.
C6_NewFields ==
    LoadedJson =>
        /\ Len(ret[2]) = Len(arg[2][2])
        /\ \A i \in DOMAIN ret[2] :
              /\ Backfilled(i, NewKeys)
              /\ \A k \in OldKeys :
                    /\ Has(ret[2][i], k) <=> Has(StoredDict(i), k)
                    /\ Get(ret[2][i], k, None) = Get(StoredDict(i), k, None)

\* A record without any of the dream fields and without tags was loaded.
C6_Witness ==
    /\ LoadedJson
    /\ Len(ret[2]) = 1
    /\ Keys(StoredDict(1)) \cap NewKeys = {"category", "subcategory"}
    /\ Get(ret[2][1], "dream_progress", None) = PyInt(0)

\* C7: loading what save wrote of a load gives that load again, and saving
\* it again writes the same content.
C7_RoundTrip ==
    fn = "save_load" => ret.load2 = ret.load1 /\ ret.save2 = ret.save1

\* A file of two records, the first without the keys load_entries adds, went
\* through load, save, load and save.
C7_Witness ==
    /\ fn = "save_load"
    /\ Len(ret.load2) = 2
    /\ ~Has(ObjectToDict(arg[2][2][1]), "dream_progress")
    /\ ret.save1 # arg[2]

SixKeywords ==
    {<<"d", "r", "e", "a", "m">>, <<"d", "r", "e", "a", "m", "s">>,
     <<"g", "o", "a", "l">>, <<"g", "o", "a", "l", "s">>,
     <<"m", "a", "n", "i", "f", "e", "s", "t">>,
     <<"m", "a", "n", "i", "f", "e", "s", "t", "a", "t", "i", "o", "n">>}

\* C8: an entry is in the unfiltered dreamboard exactly when its lowercased
\* category is goal or goals or one of its lowercased tags is one of the six
\* keywords; it is in the gallery's dream set exactly when its lowercased
\* category is goal, goals, dreams or dreamboard or one of its lowercased
\* tags is one of the same six keywords.
C8_DreamSelection ==
    fn = "dream_views" =>
        LET category == Lower(Get(arg[2], "category", None)[2])
            tagged == \E i \in DOMAIN Get(arg[2], "tags", None)[2] :
                          Lower(Get(arg[2], "tags", None)[2][i]) \in SixKeywords
        IN  /\ arg[2] \in Range(ret.dreamboard)
                <=> (category \in {<<"g", "o", "a", "l">>, <<"g", "o", "a", "l", "s">>} \/ tagged)
            /\ arg[2] \in Range(ret.gallery)
                <=> (category \in {<<"g", "o", "a", "l">>, <<"g", "o", "a", "l", "s">>,
                                   <<"d", "r", "e", "a", "m", "s">>,
                                   <<"d", "r", "e", "a", "m", "b", "o", "a", "r", "d">>} \/ tagged)

\* dream_progress as an integer, 0 when it is no integer.
CoercedProgress(e) ==
    LET raw == Get(e, "dream_progress", None)
    IN  IF raw[1] = "int" THEN raw[2]
        ELSE IF raw[1] = "str" /\ IntOfStr(raw[2])[1] = "ok" THEN IntOfStr(raw[2])[2]
        ELSE 0

CarriesMilestoneTag(e) ==
    \E i \in DOMAIN Get(e, "tags", None)[2] : Lower(Get(e, "tags", None)[2][i]) = MilestoneTag

Qualifies(e) == CoercedProgress(e) >= 80 \/ CarriesMilestoneTag(e)

\* How many times x is in the sequence s.
Count(s, x) == Cardinality({i \in DOMAIN s : s[i] = x})

\* C11: the milestones view holds exactly the entries whose dream_progress,
\* as an integer (0 when it is none), is at least 80 or that carry the tag
\* milestone (in any case of letters), each as often as the collection has
\* it; a larger progress comes first, and of two entries of equal progress
\* the one whose dream_target_date is the smaller string (the empty one the
\* smallest) is not after the other.  Progress 90, 50, 85 gives the 90
\* entry, then the 85 entry.
C11_Milestones ==
    fn = "milestones" =>
        /\ \A e \in GoalEntries :
              Count(ret, e) = (IF Qualifies(e) THEN Count(arg[2], e) ELSE 0)
        /\ \A i, j \in DOMAIN ret :
              i < j =>
                 \/ CoercedProgress(ret[i]) > CoercedProgress(ret[j])
                 \/ /\ CoercedProgress(ret[i]) = CoercedProgress(ret[j])
                    /\ ~StrLess(Get(ret[j], "dream_target_date", None)[2],
                                Get(ret[i], "dream_target_date", None)[2])
        /\ arg[2] = <<Goal90, Goal50, Goal85>> => ret = <<Goal90, Goal85>>

\* The view of entries of progress 90, 50 and 85 was computed: the 90 entry,
\* then the 85 entry.
C11_Witness ==
    /\ fn = "milestones"
    /\ arg[2] = <<Goal90, Goal50, Goal85>>
    /\ ret = <<Goal90, Goal85>>

-----------------------------------------------------------------------------
(* TagSpec: create and edit requests, one at a time from an empty store,    *)
(* whose forms carry tag strings of every shape: empty, lone commas,        *)
(* whitespace between commas, whitespace around and inside tags.  The       *)
(* title of each form repeats its tags field, so that the stored entry      *)
(* shows what was submitted.                                                *)

TagsMessy == <<",", "a", ",", ",", " ", "b", " ", ",">>

TagStrings ==
    {Empty,
     <<" ">>,
     <<",", " ", ",">>,
     TagsMessy}

TagForms == {[title |-> t, tags |-> t] : t \in TagStrings}

TagNext ==
    \/ SeqBegin(SeqSlot)
    \/ NewEntryPost(SeqSlot, TagForms, NoUpload, SeqClocks)
    \/ EditEntryPost(SeqSlot, TagForms, NoUpload)
    \/ NewDreamPost(SeqSlot, {FormDream}, SeqClocks)
    \/ DailyReflectionPost(SeqSlot, {FormReflect}, SeqClocks)

TagSpec == Init /\ [][TagNext]_vars

\* C12: no entry of the persisted collection has an empty string among its
\* tags, and no stored tag begins or ends with whitespace.
C12_TagsTrimmed ==
    \A i \in DOMAIN Stored :
        LET tags == Get(Stored[i], "tags", None)[2]
        IN  \A k \in DOMAIN tags :
               /\ tags[k] # Empty
               /\ ~IsSpace(tags[k][1])
               /\ ~IsSpace(tags[k][Len(tags[k])])

\* Entry 1 was edited with the tags ",a,, b ," and is stored with the tags a
\* and b; entry 2 was created with the tags " " and is stored without tags.
C12_Witness ==
    /\ req = Request("edit_entry", "POST", 1)
    /\ IsRedirect(resp)
    /\ Len(Stored) = 2
    /\ Get(Stored[1], "title", None) = PyStr(TagsMessy)
    /\ Get(Stored[1], "tags", None) = PyList(<< <<"a">>, <<"b">> >>)
    /\ Get(Stored[2], "title", None) = PyStr(<<" ">>)
    /\ Get(Stored[2], "tags", None) = PyList(<<>>)

-----------------------------------------------------------------------------
(* RecoverSpec: create and delete requests, one at a time, on a store that  *)
(* is not there or that cannot be parsed.                                   *)

CreateHandlers == {"new_entry", "new_dream", "daily_reflection"}

\* The stores without a collection: no file, bytes that are no text, text
\* that is no JSON.
Unparseable == {<<"absent">>, <<"undecodable">>, <<"garbage">>}

RecoverInit ==
    /\ file \in Unparseable
    /\ pc = [r \in Slots |-> "idle"]
    /\ snap = [r \in Slots |-> <<>>]
    /\ req = Request("none", "", 0)
    /\ resp = None
    /\ hist = [r \in Slots |-> NoHist]
    /\ race = NoRace
    /\ started = 0
    /\ fn = "none"
    /\ arg = None
    /\ ret = None

RecoverNext ==
    \/ SeqBegin(SeqSlot)
    \/ \E handler \in CreateHandlers : LoadFails(SeqSlot, Request(handler, "POST", 0))
    \/ NewEntryPost(SeqSlot, {FormA, FormB}, SeqEditUploads, SeqClocks)
    \/ NewDreamPost(SeqSlot, {FormDream}, SeqClocks)
    \/ DailyReflectionPost(SeqSlot, {FormReflect}, SeqClocks)
    \/ DeleteEntry(SeqSlot)

RecoverSpec == RecoverInit /\ [][RecoverNext]_vars

\* The step in which a create request is answered: the rest of the handler
\* after its load, or the load that raises.
CreateAnswered ==
    /\ pc[SeqSlot] = "loaded" \/ (pc[SeqSlot] = "idle" /\ LoadRaises(file))
    /\ pc'[SeqSlot] = "idle"
    /\ req'.handler \in CreateHandlers
    /\ req'.method = "POST"

\* C14: a create request on a store that is absent or cannot be parsed is
\* answered with its redirect, no error, and leaves the store holding
\* exactly one entry, the new one, with id 1.
C14_UnparseableIsEmpty ==
    [][(CreateAnswered /\ file \in Unparseable)
          => /\ IsRedirect(resp')
             /\ file'[1] = "json"
             /\ Len(load_entries(file')) = 1
             /\ Get(load_entries(file')[1], "id", None) = PyInt(1)]_vars

-----------------------------------------------------------------------------
(* Lost updates (Spec).  race is set by the save of a request that loaded   *)
(* the file together with another one (no save between their two loads)     *)
(* and saves after it: race.first is the change of the first of the two to  *)
(* save, race.second the change of the second, race.loaded what the second  *)
(* had loaded.  It is cleared by the next save.                             *)

Raced == race # NoRace

\* The list a change makes of the list it was computed from.
Applied(change, loaded) ==
    CASE change.op = "add" -> Append(loaded, change.entry)
      [] change.op = "edit" ->
            [loaded EXCEPT ![FindEntry(loaded, change.id)] = change.entry]
      [] change.op = "remove" ->
            SelectSeq(loaded, LAMBDA e : Get(e, "id", None) # PyInt(change.id))

\* The store is the second writer's list, and neither request saw an error.
SecondWriterWins ==
    /\ Stored = Applied(race.second, race.loaded)
    /\ file = save_entries(Applied(race.second, race.loaded))
    /\ IsRedirect(race.first.resp)
    /\ IsRedirect(race.second.resp)

\* The first writer's change is not in the store: the entry it added or the
\* entry as it edited it is not stored, the entry it removed is stored again.
FirstChangeAbsent ==
    CASE race.first.op = "add" -> race.first.entry \notin Range(Stored)
      [] race.first.op = "edit" -> race.first.entry \notin Range(Stored)
      [] race.first.op = "remove" ->
            race.first.entry # <<>> => PyInt(race.first.id) \in StoredIds
      [] OTHER -> TRUE

\* The first writer changed nothing: it deleted an id that was not stored, or
\* its edit resubmitted the stored values.
FirstChangedNothing ==
    \/ race.first.op = "remove" /\ race.first.entry = <<>>
    \/ race.first.op = "edit" /\ race.first.entry \in Range(race.loaded)

\* The second writer's request makes the change the first one made.
SameChange ==
    /\ race.second.op = race.first.op
    /\ race.second.id = race.first.id
    /\ race.second.op \in {"add", "edit"} => race.second.entry = race.first.entry

\* C2, as stated: after two overlapping writers the store is the second
\* writer's list, without the first writer's change, and neither request
\* reports an error.
C2_LostUpdate_AsStated == Raced => SecondWriterWins /\ FirstChangeAbsent

\* C2, amended: after two overlapping writers the store is the second
\* writer's list, computed from what it loaded, and neither request reports
\* an error; the first writer's change is in the store only if the second
\* writer's request makes the same change, or the first changed nothing.
C2_LostUpdate ==
    Raced => /\ SecondWriterWins
             /\ FirstChangeAbsent \/ SameChange \/ FirstChangedNothing

\* Two writers overlapped, the first added an entry that the second, editing
\* another one, wrote over.
C2_Witness ==
    /\ Raced
    /\ race.first.op = "add"
    /\ race.second.op = "edit"
    /\ Len(Stored) = Len(race.loaded)
    /\ ~SameChange /\ ~FirstChangedNothing

\* C3: two create requests that load the same store, neither saving before
\* the other has loaded, are assigned the same id.
C3_SameIdUnderRace ==
    (Raced /\ race.first.op = "add" /\ race.second.op = "add")
        => race.first.id = race.second.id

\* Two creates of different handlers overlapped on a store that held an
\* entry already, and both were given id 2.
C3_Witness ==
    /\ Raced
    /\ race.first.op = "add" /\ race.second.op = "add"
    /\ race.first.entry # race.second.entry
    /\ race.loaded # <<>>
    /\ race.first.id = 2 /\ race.second.id = 2

\* Two overlapping creates were given the same id and made different
\* entries.
SameIdAllocated ==
    /\ Raced
    /\ race.first.op = "add" /\ race.second.op = "add"
    /\ race.first.id = race.second.id
    /\ race.first.entry # race.second.entry

\* C15: however the loads and saves of create, edit and delete requests
\* interleave, from an empty store, the stored entries have as many ids as
\* there are entries; and when two overlapping creates were given the same
\* id, the store holds the entry of the second to save and not the entry of
\* the first.
C15_NoDuplicateIds ==
    /\ Cardinality(StoredIds) = Len(Stored)
    /\ SameIdAllocated =>
          /\ race.second.entry \in Range(Stored)
          /\ race.first.entry \notin Range(Stored)
          /\ Cardinality({i \in DOMAIN Stored :
                             Get(Stored[i], "id", None) = PyInt(race.second.id)}) = 1

\* Two creates overlapped on the empty store, both were given id 1, and the
\* store holds the entry of the second alone.
C15_Witness ==
    /\ SameIdAllocated
    /\ race.loaded = <<>>
    /\ race.second.id = 1
    /\ Stored = <<race.second.entry>>

-----------------------------------------------------------------------------
(* Ids (SeqSpec) *)

\* C1: after any sequence of requests that do not overlap, from an empty
\* store, no two entries of the persisted collection have the same id (and
\* every entry has an integer id).
C1_UniqueIds ==
    /\ \A i \in DOMAIN Stored : IsInt(Get(Stored[i], "id", None))
    /\ \A i, j \in DOMAIN Stored :
          i # j => Get(Stored[i], "id", None) # Get(Stored[j], "id", None)

\* Two entries are stored, the second a daily reflection, and the last
\* request, an edit, was saved.
C1_Witness ==
    /\ Len(Stored) = 2
    /\ req.handler = "edit_entry" /\ req.method = "POST" /\ IsRedirect(resp)
    /\ Get(Stored[2], "category", None) = PyStr(LifeDiary)

-----------------------------------------------------------------------------
(* Views (ViewSpec) *)

ViewHandlers == {"timeline", "milestones", "stats", "dreamboard"}

\* C9: every timeline, milestones, stats and dreamboard request completes
\* with a rendered page, whatever date, dream_progress and dream_target_date
\* strings the create and edit requests stored.
C9_ViewsNeverFail == req.handler \in ViewHandlers => IsRender(resp)

====
